---- MODULE Spec2Model ----
(***************************************************************************)
(* Model of the EcomDominator synchronization service                      *)
(* (EcomDominator_Standalone/src/ecom_dominator): the catalog store        *)
(* (models.py), the adapter factory and the four orchestrator operations   *)
(* (service.py), and the handlers that invoke them (api.py).               *)
(*                                                                         *)
(* Money is kept exact, in mills (1/1000 of the currency unit): 20.00 is   *)
(* 20000. Time is kept in ticks of half a day. A marketplace adapter is    *)
(* a remote call; its outcome (value returned or exception raised) is an   *)
(* input of the operation that calls it.                                   *)
(***************************************************************************)
EXTENDS Integers, Sequences, FiniteSets, TLC

VARIABLES
    creds,          \* table marketplace_credentials, rows in primary-key order
    products,       \* table products (set of rows)
    listings,       \* table listings (set of rows)
    orders,         \* table orders (set of rows)
    now,            \* wall clock, in ticks
    inflight,       \* the requests being served concurrently, each with its
                    \* position in the code and its local values
    last            \* observation of the most recent step: its inputs, the
                    \* adapter calls it made and whether it raised

vars == <<creds, products, listings, orders, now, inflight, last>>

-----------------------------------------------------------------------------
(* Bounds of the exploration *)

MaxPlatformsPerCall == 2    \* length of the platforms list of one publish
MaxFetched == 2             \* orders one fetch_orders call returns
MaxNow == 82                \* last tick of the clock

(* Program constants *)

TicksPerDay == 2
DecayDays == 30
Lookback == 60
DecayNumerator == 98        \* price * 0.98
FloorNumerator == 110       \* cost_price * 1.10

(* Value domains *)

AdapterVariants ==
    {"shopify", "ebay", "amazon", "walmart", "etsy", "facebook", "tiktok"}
Platforms == {"shopify", "ebay", "bogus"}
SKUs == {"ABC-1"}
RequestSkus == SKUs \cup {"NOPE"}
\* the identifiers a marketplace may hand out for a listing
ExtIds(platform) ==
    IF platform = "shopify" THEN {"s1", "s2"}
    ELSE IF platform = "ebay" THEN {"b1"}
    ELSE {}
\* the orders a marketplace may report: o1 is an order id of both marketplaces,
\* reported by shopify in two states
RemoteOrders(platform) ==
    IF platform = "shopify"
    THEN {[external_order_id |-> "o1", status |-> "paid"],
          [external_order_id |-> "o1", status |-> "shipped"],
          [external_order_id |-> "o2", status |-> "paid"]}
    ELSE IF platform = "ebay"
    THEN {[external_order_id |-> "o1", status |-> "paid"]}
    ELSE {}
ListingStatuses == {"active", "inactive", "draft", "error"}

Raise == "RAISE"
NoClient == "none"
NoTime == -1
NoCost == -1
NotCalled == "-"
NoRequests == <<>>

SeqsUpTo(S, n) == UNION {[1..k -> S] : k \in 0..n}

Max(S) == CHOOSE x \in S : \A y \in S : y <= x
Min(S) == CHOOSE x \in S : \A y \in S : x <= y

NextId(rows) == IF rows = {} THEN 1 ELSE Max({r.id : r \in rows}) + 1

RECURSIVE SortedIds(_)
SortedIds(S) ==
    IF S = {} THEN <<>> ELSE <<Min(S)>> \o SortedIds(S \ {Min(S)})

RowById(rows, id) == CHOOSE r \in rows : r.id = id

Call(fn, platform, ext, arg) ==
    [fn |-> fn, platform |-> platform, ext |-> ext, arg |-> arg]

Observation(op) ==
    [op |-> op, sku |-> "", platforms |-> <<>>, outs |-> <<>>,
     raised |-> FALSE, calls |-> <<>>, repeat |-> FALSE, inserted |-> 0]

-----------------------------------------------------------------------------
(* Adapter factory *)

get_client(platform) ==
    IF ~ \E i \in DOMAIN creds : creds[i].platform = platform
    THEN NoClient
    ELSE IF platform \in AdapterVariants THEN platform ELSE NoClient

-----------------------------------------------------------------------------
(* Publish *)

\* variant: the lookup finds nothing
first_listing_none(rows, product_id, platform) == {}

first_listing(rows, product_id, platform) ==
    LET found == {l \in rows : l.product_id = product_id /\ l.platform = platform}
    IN  IF found = {} THEN {} ELSE {RowById(found, Min({l.id : l \in found}))}

\* variant: an existing listing keeps the price it was created with
save_listing_keep_price(rows, product, platform, ext_id) ==
    LET found == first_listing(rows, product.id, platform)
    IN  IF found = {}
        THEN rows \cup {[id |-> NextId(rows), product_id |-> product.id,
                         platform |-> platform, external_id |-> ext_id,
                         status |-> "active", price |-> product.price,
                         last_synced_at |-> NoTime]}
        ELSE (rows \ found) \cup
             {[l EXCEPT !.external_id = ext_id, !.status = "active"] : l \in found}

save_listing(rows, product, platform, ext_id) ==
    LET found == first_listing(rows, product.id, platform)
        listing == IF found = {}
                   THEN [id |-> NextId(rows), product_id |-> product.id,
                         platform |-> platform, external_id |-> "",
                         status |-> "", price |-> 0, last_synced_at |-> NoTime]
                   ELSE CHOOSE l \in found : TRUE
    IN  (rows \ found) \cup
        {[listing EXCEPT !.external_id = ext_id, !.status = "active",
                         !.price = product.price]}

\* variant: list_product is called outside the try block, its exception ends
\* the loop
RECURSIVE publish_loop_abort(_, _, _, _, _)
publish_loop_abort(product, platforms, outs, i, st) ==
    IF i > Len(platforms) THEN st
    ELSE LET platform == platforms[i]
             client == get_client(platform)
         IN  IF client = NoClient
             THEN publish_loop_abort(product, platforms, outs, i + 1, st)
             ELSE LET called == [st EXCEPT !.calls =
                          Append(@, Call("list_product", platform, "", product.id))]
                  IN  IF outs[i] = Raise
                      THEN [called EXCEPT !.raised = TRUE]
                      ELSE publish_loop_abort(product, platforms, outs, i + 1,
                               [called EXCEPT !.listings =
                                   save_listing(@, product, platform, outs[i])])

RECURSIVE publish_loop(_, _, _, _, _)
publish_loop(product, platforms, outs, i, st) ==
    IF i > Len(platforms) THEN st
    ELSE LET platform == platforms[i]
             client == get_client(platform)
         IN  IF client = NoClient
             THEN publish_loop(product, platforms, outs, i + 1, st)
             ELSE LET called == [st EXCEPT !.calls =
                          Append(@, Call("list_product", platform, "", product.id))]
                  IN  IF outs[i] = Raise
                      THEN publish_loop(product, platforms, outs, i + 1, called)
                      ELSE publish_loop(product, platforms, outs, i + 1,
                               [called EXCEPT !.listings =
                                   save_listing(@, product, platform, outs[i])])

publish_product(sku, platforms, outs) ==
    LET found == {p \in products : p.sku = sku}
        st0 == [listings |-> listings, calls |-> <<>>, raised |-> FALSE]
    IN  IF found = {} THEN st0
        ELSE publish_loop(CHOOSE p \in found : TRUE, platforms, outs, 1, st0)

\* what list_product does at each position of the list: the identifier it
\* returns, or Raise; NotCalled where the code does not reach the call
PublishOutcomes(sku, platforms) ==
    {outs \in [1..Len(platforms) ->
                 UNION {ExtIds(p) : p \in Platforms} \cup {Raise, NotCalled}] :
        \A i \in 1..Len(platforms) :
            IF (\E p \in products : p.sku = sku) /\ get_client(platforms[i]) # NoClient
            THEN outs[i] \in ExtIds(platforms[i]) \cup {Raise}
            ELSE outs[i] = NotCalled}

PublishProduct ==
    \E sku \in RequestSkus, platforms \in SeqsUpTo(Platforms, MaxPlatformsPerCall) :
      \E outs \in PublishOutcomes(sku, platforms) :
        LET r == publish_product(sku, platforms, outs)
        IN  /\ listings' = r.listings
            /\ last' = [Observation("publish_product") EXCEPT
                            !.sku = sku, !.platforms = platforms,
                            !.outs = outs, !.calls = r.calls,
                            !.raised = r.raised]
            /\ UNCHANGED <<creds, products, orders, now, inflight>>

-----------------------------------------------------------------------------
(* SyncInventory *)

\* variant: a raise of update_inventory ends the loop over the listings
RECURSIVE sync_inventory_loop_abort(_, _, _)
sync_inventory_loop_abort(ids, outs, st) ==
    IF ids = <<>> THEN st
    ELSE LET listing == RowById(st.listings, Head(ids))
             client == get_client(listing.platform)
             product == CHOOSE p \in products : p.id = listing.product_id
         IN  IF client = NoClient
             THEN sync_inventory_loop_abort(Tail(ids), outs, st)
             ELSE LET called == [st EXCEPT !.calls =
                          Append(@, Call("update_inventory", listing.platform,
                                         listing.external_id, product.quantity))]
                  IN  IF outs[listing.id] = Raise
                      THEN called
                      ELSE sync_inventory_loop_abort(Tail(ids), outs,
                               [called EXCEPT !.listings =
                                   (@ \ {listing}) \cup
                                   {[listing EXCEPT !.last_synced_at = now]}])

RECURSIVE sync_inventory_loop(_, _, _)
sync_inventory_loop(ids, outs, st) ==
    IF ids = <<>> THEN st
    ELSE LET listing == RowById(st.listings, Head(ids))
             client == get_client(listing.platform)
             product == CHOOSE p \in products : p.id = listing.product_id
         IN  IF client = NoClient
             THEN sync_inventory_loop(Tail(ids), outs, st)
             ELSE LET called == [st EXCEPT !.calls =
                          Append(@, Call("update_inventory", listing.platform,
                                         listing.external_id, product.quantity))]
                  IN  IF outs[listing.id] = Raise
                      THEN sync_inventory_loop(Tail(ids), outs, called)
                      ELSE sync_inventory_loop(Tail(ids), outs,
                               [called EXCEPT !.listings =
                                   (@ \ {listing}) \cup
                                   {[listing EXCEPT !.last_synced_at = now]}])

\* variant: a failed update marks the listing with status 'error'
sync_inventory_mark_error(outs) ==
    LET r == sync_inventory_loop(
                 SortedIds({l.id : l \in {x \in listings : x.status = "active"}}),
                 outs, [listings |-> listings, calls |-> <<>>])
    IN  [r EXCEPT !.listings =
            {IF l.id \in DOMAIN outs /\ outs[l.id] = Raise
             THEN [l EXCEPT !.status = "error"] ELSE l : l \in @}]

sync_inventory(outs) ==
    sync_inventory_loop(
        SortedIds({l.id : l \in {x \in listings : x.status = "active"}}),
        outs, [listings |-> listings, calls |-> <<>>])

UpdateOutcomes(status_filter) ==
    LET called == {l.id : l \in {x \in listings :
                        x.status \in status_filter /\ get_client(x.platform) # NoClient}}
    IN  [called -> {"true", "false", Raise}]

SyncInventory ==
    \E outs \in UpdateOutcomes({"active"}) :
        LET r == sync_inventory(outs)
        IN  /\ listings' = r.listings
            /\ last' = [Observation("sync_inventory") EXCEPT
                            !.outs = outs, !.calls = r.calls]
            /\ UNCHANGED <<creds, products, orders, now, inflight>>

-----------------------------------------------------------------------------
(* SyncOrders *)

order_exists(rows, external_order_id, platform) ==
    \E o \in rows : o.external_order_id = external_order_id /\ o.platform = platform

RECURSIVE add_orders(_, _, _, _)
add_orders(rows, platform, fetched, pending) ==
    IF fetched = <<>> THEN pending
    ELSE add_orders(rows, platform, Tail(fetched),
            IF order_exists(rows, Head(fetched).external_order_id, platform)
            THEN pending
            ELSE Append(pending, Head(fetched)))

\* variant: the table has no unique constraint
flush_ok_unconstrained(rows, pending) == TRUE

\* the flush of the pending rows meets UNIQUE(orders.external_order_id)
flush_ok(rows, pending) ==
    /\ \A i, j \in DOMAIN pending :
           i # j => pending[i].external_order_id # pending[j].external_order_id
    /\ \A i \in DOMAIN pending :
           \A o \in rows : o.external_order_id # pending[i].external_order_id

insert_orders(rows, platform, pending) ==
    rows \cup {[id |-> NextId(rows) + (i - 1),
                external_order_id |-> pending[i].external_order_id,
                platform |-> platform,
                status |-> pending[i].status] : i \in DOMAIN pending}

\* variant: an order that is already stored takes the status now reported
store_orders_upsert(rows, platform, fetched) ==
    LET pending == add_orders(rows, platform, fetched, <<>>)
        reported(o) == {i \in DOMAIN fetched :
                          /\ o.platform = platform
                          /\ fetched[i].external_order_id = o.external_order_id}
        merged == {IF reported(o) = {} THEN o
                   ELSE [o EXCEPT !.status = fetched[Max(reported(o))].status] :
                   o \in rows}
    IN  IF flush_ok(rows, pending)
        THEN [ok |-> TRUE, orders |-> insert_orders(merged, platform, pending)]
        ELSE [ok |-> FALSE, orders |-> rows]

\* the body of the try block after the fetch: dedup, add, commit
store_orders(rows, platform, fetched) ==
    LET pending == add_orders(rows, platform, fetched, <<>>)
    IN  IF flush_ok(rows, pending)
        THEN [ok |-> TRUE, orders |-> insert_orders(rows, platform, pending)]
        ELSE [ok |-> FALSE, orders |-> rows]

\* st.broken: a commit failed and the session was not rolled back, so the next
\* query on it (get_client, outside the try block) raises
RECURSIVE sync_orders_loop(_, _, _)
sync_orders_loop(i, resp, st) ==
    IF i > Len(creds) THEN st
    ELSE IF st.broken THEN [st EXCEPT !.raised = TRUE]
    ELSE LET platform == creds[i].platform
             client == get_client(platform)
         IN  IF client = NoClient
             THEN sync_orders_loop(i + 1, resp, st)
             ELSE LET called == [st EXCEPT !.calls =
                          Append(@, Call("fetch_orders", platform, "", Lookback))]
                  IN  IF resp[platform].raises
                      THEN sync_orders_loop(i + 1, resp, called)
                      ELSE LET stored == store_orders(st.orders, platform,
                                                      resp[platform].orders)
                           IN  sync_orders_loop(i + 1, resp,
                                   [called EXCEPT !.orders = stored.orders,
                                                  !.broken = ~ stored.ok])

sync_orders(resp) ==
    sync_orders_loop(1, resp,
        [orders |-> orders, calls |-> <<>>, broken |-> FALSE, raised |-> FALSE])

\* what fetch_orders does for each platform that has an adapter
FetchResults(platform) ==
    {[raises |-> TRUE, orders |-> <<>>]} \cup
    {[raises |-> FALSE, orders |-> f] : f \in SeqsUpTo(RemoteOrders(platform), MaxFetched)}

RECURSIVE FetchOutcomesOver(_)
FetchOutcomesOver(ps) ==
    IF ps = {} THEN {<<>>}
    ELSE LET p == CHOOSE x \in ps : TRUE
         IN  {[q \in DOMAIN rest \cup {p} |-> IF q = p THEN r ELSE rest[q]] :
                 rest \in FetchOutcomesOver(ps \ {p}), r \in FetchResults(p)}

FetchOutcomes == FetchOutcomesOver({p \in Platforms : get_client(p) # NoClient})

SyncOrders ==
    \E resp \in FetchOutcomes :
        LET r == sync_orders(resp)
        IN  /\ orders' = r.orders
            /\ last' = [Observation("sync_orders") EXCEPT
                            !.outs = resp, !.calls = r.calls, !.raised = r.raised,
                            !.repeat = (last.op = "sync_orders" /\ last.outs = resp),
                            !.inserted = Cardinality(r.orders \ orders)]
            /\ UNCHANGED <<creds, products, listings, now, inflight>>

-----------------------------------------------------------------------------
(* RunPricingEngine *)

\* n / d rounded to the nearest integer; on an exact tie the binary value of
\* the float product decides, so the direction is an input
RoundNearest(n, d, tie_up) ==
    LET q == n \div d
        r == n % d
    IN  IF 2 * r > d THEN q + 1
        ELSE IF 2 * r < d THEN q
        ELSE IF tie_up THEN q + 1 ELSE q

\* variant: the docstring's "drop price by 1%"
decayed_price_1pct(old_price, tie_up) ==
    10 * RoundNearest(99 * old_price, 1000, tie_up)

\* round(old_price * 0.98, 2)
decayed_price(old_price, tie_up) ==
    10 * RoundNearest(DecayNumerator * old_price, 1000, tie_up)

\* (cost_price or 0) * 1.10
price_floor(cost_price) ==
    IF cost_price = NoCost THEN 0 ELSE (cost_price * FloorNumerator) \div 100

days_since_update(p) == (now - p.updated_at) \div TicksPerDay

\* variant: no safety floor
new_price_unclamped(p, tie_up) == decayed_price(p.price, tie_up)

new_price(p, tie_up) ==
    IF decayed_price(p.price, tie_up) < price_floor(p.cost_price)
    THEN price_floor(p.cost_price)
    ELSE decayed_price(p.price, tie_up)

\* variant: the rule does not look at the inventory
decays_any_quantity(p, tie_up) ==
    /\ p.updated_at # NoTime
    /\ days_since_update(p) > DecayDays
    /\ new_price(p, tie_up) < p.price

decays(p, tie_up) ==
    /\ p.updated_at # NoTime
    /\ days_since_update(p) > DecayDays
    /\ p.quantity > 0
    /\ new_price(p, tie_up) < p.price

\* variant: a raise of update_price ends the loop over the listings
RECURSIVE push_price_abort(_, _, _, _)
push_price_abort(ids, price, outs, calls) ==
    IF ids = <<>> THEN calls
    ELSE LET listing == RowById(listings, Head(ids))
         IN  IF listing.status = "active" /\ get_client(listing.platform) # NoClient
             THEN IF outs[listing.id] = Raise
                  THEN Append(calls, Call("update_price", listing.platform,
                                          listing.external_id, price))
                  ELSE push_price_abort(Tail(ids), price, outs,
                           Append(calls, Call("update_price", listing.platform,
                                              listing.external_id, price)))
             ELSE push_price_abort(Tail(ids), price, outs, calls)

RECURSIVE push_price(_, _, _, _)
push_price(ids, price, outs, calls) ==
    IF ids = <<>> THEN calls
    ELSE LET listing == RowById(listings, Head(ids))
         IN  IF listing.status = "active" /\ get_client(listing.platform) # NoClient
             THEN push_price(Tail(ids), price, outs,
                      Append(calls, Call("update_price", listing.platform,
                                         listing.external_id, price)))
             ELSE push_price(Tail(ids), price, outs, calls)

\* variant: the price change leaves the last-update timestamp as it was
RECURSIVE pricing_loop_keep_stamp(_, _, _, _)
pricing_loop_keep_stamp(ids, outs, tie_up, st) ==
    IF ids = <<>> THEN st
    ELSE LET p == RowById(st.products, Head(ids))
         IN  IF decays(p, tie_up)
             THEN pricing_loop_keep_stamp(Tail(ids), outs, tie_up,
                      [products |-> (st.products \ {p}) \cup
                            {[p EXCEPT !.price = new_price(p, tie_up)]},
                       calls |-> push_price(
                            SortedIds({l.id : l \in {x \in listings : x.product_id = p.id}}),
                            new_price(p, tie_up), outs, st.calls)])
             ELSE pricing_loop_keep_stamp(Tail(ids), outs, tie_up, st)

RECURSIVE pricing_loop(_, _, _, _)
pricing_loop(ids, outs, tie_up, st) ==
    IF ids = <<>> THEN st
    ELSE LET p == RowById(st.products, Head(ids))
         IN  IF decays(p, tie_up)
             THEN pricing_loop(Tail(ids), outs, tie_up,
                      [products |-> (st.products \ {p}) \cup
                            {[p EXCEPT !.price = new_price(p, tie_up),
                                       !.updated_at = now]},
                       calls |-> push_price(
                            SortedIds({l.id : l \in {x \in listings : x.product_id = p.id}}),
                            new_price(p, tie_up), outs, st.calls)])
             ELSE pricing_loop(Tail(ids), outs, tie_up, st)

run_pricing_engine(outs, tie_up) ==
    pricing_loop(SortedIds({p.id : p \in products}), outs, tie_up,
                 [products |-> products, calls |-> <<>>])

RunPricingEngine ==
    \E outs \in UpdateOutcomes({"active"}), tie_up \in BOOLEAN :
        LET r == run_pricing_engine(outs, tie_up)
        IN  /\ products' = r.products
            /\ last' = [Observation("run_pricing_engine") EXCEPT
                            !.outs = outs, !.calls = r.calls]
            /\ UNCHANGED <<creds, listings, orders, now, inflight>>

-----
(* Passage of time *)

Tick ==
    /\ now < MaxNow
    /\ now' = now + 1
    /\ last' = Observation("tick")
    /\ UNCHANGED <<creds, products, listings, orders, inflight>>

-----------------------------------------------------------------------------
(* Credential resolution and adapter construction *)

Null == "null"                  \* a NULL column, Python's None
EmptyBag == [key \in {} |-> Null]
\* additional_config IS NULL
NoConfig == [is_null |-> TRUE, items |-> EmptyBag]
NoAttr == "n/a"                 \* the adapter class has no such attribute
AmazonDefaultMarketplace == "ATVPDKIKX0DER"

\* keys get_client derives from the named columns and from fixed extras keys
NamedKeys ==
    {"api_key", "access_token", "shop_url", "merchant_id", "client_id",
     "client_secret", "shop_id", "shop_cipher", "app_key", "marketplace_id",
     "refresh_token"}

\* keys seen in additional_config: two that collide with a column, one that
\* get_client copies by name, one that only the extras carry
ExtraKeys == {"access_token", "marketplace_id", "shop_url", "catalog_id"}

\* dict.get(key, default)
dict_get(d, key, default) == IF key \in DOMAIN d THEN d[key] ELSE default

\* creds.additional_config or {}
extras(row) ==
    IF row.additional_config.is_null THEN EmptyBag ELSE row.additional_config.items

\* creds.additional_config.get(key) if creds.additional_config else None
config_get(row, key) ==
    IF row.additional_config.is_null \/ DOMAIN row.additional_config.items = {}
    THEN Null
    ELSE dict_get(row.additional_config.items, key, Null)

named_value(row, key) ==
    CASE key = "api_key" -> row.api_key
      [] key = "access_token" -> row.access_token
      [] key = "merchant_id" -> row.merchant_id
      [] key = "client_secret" -> row.api_secret
      [] key = "marketplace_id" -> row.marketplace_id
      [] key = "refresh_token" -> row.refresh_token
      [] OTHER -> config_get(row, key)

\* variant: on a collision the named column wins
c_dict_columns_win(row) ==
    [key \in NamedKeys \cup DOMAIN extras(row) |->
        IF key \in NamedKeys THEN named_value(row, key) ELSE extras(row)[key]]

c_dict(row) ==
    [key \in NamedKeys \cup DOMAIN extras(row) |->
        IF key \in DOMAIN extras(row) THEN extras(row)[key]
        ELSE named_value(row, key)]

\* the adapter classes that keep the access token in an attribute
TokenVariants == AdapterVariants \ {"walmart"}

\* variant: the dispatch always builds the first adapter class
new_client_shopify(platform, credentials) ==
    [variant |-> "shopify",
     credentials |-> credentials,
     access_token |-> dict_get(credentials, "access_token", Null),
     marketplace_id |-> NoAttr]

\* the constructor of the adapter class of the platform
new_client(platform, credentials) ==
    [variant |-> platform,
     credentials |-> credentials,
     access_token |-> IF platform \in TokenVariants
                      THEN dict_get(credentials, "access_token", Null)
                      ELSE NoAttr,
     marketplace_id |-> IF platform = "amazon"
                        THEN dict_get(credentials, "marketplace_id",
                                      AmazonDefaultMarketplace)
                        ELSE NoAttr]

\* get_client returning None
no_client ==
    [variant |-> NoClient, credentials |-> EmptyBag,
     access_token |-> NoAttr, marketplace_id |-> NoAttr]

cred_row(platform) ==
    creds[Min({i \in DOMAIN creds : creds[i].platform = platform})]

\* get_client with the adapter object it returns
get_client_object(platform) ==
    IF get_client(platform) = NoClient THEN no_client
    ELSE new_client(platform, c_dict(cred_row(platform)))

GetClient ==
    \E platform \in AdapterVariants \cup Platforms :
        /\ last' = [Observation("get_client") EXCEPT
                        !.platforms = <<platform>>,
                        !.outs = get_client_object(platform)]
        /\ UNCHANGED <<creds, products, listings, orders, now, inflight>>

\* the settings page: api_key and access_token of the platform's row are set,
\* a missing row is created with every other column NULL
SavedValues == {"k1", "k2"}

save_credentials(platform, api_key, access_token) ==
    IF \E i \in DOMAIN creds : creds[i].platform = platform
    THEN [i \in DOMAIN creds |->
            IF creds[i].platform = platform
            THEN [creds[i] EXCEPT !.api_key = api_key, !.access_token = access_token]
            ELSE creds[i]]
    ELSE Append(creds, [platform |-> platform, api_key |-> api_key,
                        api_secret |-> Null, access_token |-> access_token,
                        refresh_token |-> Null, marketplace_id |-> Null,
                        merchant_id |-> Null, additional_config |-> NoConfig])

SaveCredentials ==
    \E platform \in {"shopify", "amazon"}, value \in SavedValues :
        /\ creds' = save_credentials(platform, value, value)
        /\ last' = [Observation("save_credentials") EXCEPT !.platforms = <<platform>>]
        /\ UNCHANGED <<products, listings, orders, now, inflight>>

-----------------------------------------------------------------------------

(* Marketplace adapters: each method against the answers of its remote calls *)

MaxRemoteCalls == 3             \* most remote calls one adapter method makes

\* an answer of the remote platform: the expected status code or another one,
\* with a body that parses as the documented JSON or does not parse; or no
\* answer at all (the HTTP library raises)
TransportFailure == [status |-> "transport", body |-> ""]

Answers ==
    [status : {"success", "failure"}, body : {"payload", "unparseable"}]
        \cup {TransportFailure}

\* the orders a payload of the order endpoint reports
ReportedOrders == <<"o1", "o2">>

Return(value, calls) ==
    [raised |-> FALSE, value |-> value, error |-> "", calls |-> calls]

RaiseWith(error, calls) ==
    [raised |-> TRUE, value |-> "", error |-> error, calls |-> calls]

\* requests.<verb>(...) raising, and r.json() raising
transport(r) == r.status = "transport"

undecodable(r) == r.body = "unparseable"

\* one creation call whose answer is parsed for the identifier
create_and_parse(r) ==
    IF transport(r) THEN RaiseWith("transport", 1)
    ELSE IF r.status = "success"
         THEN IF undecodable(r) THEN RaiseWith("decode", 1) ELSE Return("id", 1)
         ELSE RaiseWith(r.body, 1)

\* one creation call whose answer is not parsed (the SKU is the identifier)
create_by_sku(r) ==
    IF transport(r) THEN RaiseWith("transport", 1)
    ELSE IF r.status = "success" THEN Return("sku", 1) ELSE RaiseWith(r.body, 1)

ebay_list_product(rs) ==
    IF transport(rs[1]) THEN RaiseWith("transport", 1)
    ELSE IF rs[1].status # "success" THEN RaiseWith(rs[1].body, 1)
    ELSE IF transport(rs[2]) THEN RaiseWith("transport", 2)
    ELSE IF rs[2].status # "success" THEN RaiseWith(rs[2].body, 2)
    ELSE IF undecodable(rs[2]) THEN RaiseWith("decode", 2)
    ELSE IF transport(rs[3]) THEN RaiseWith("transport", 3)
    ELSE Return("id", 3)

\* variant: a failed creation is logged and answered with an empty identifier
list_product_quiet(variant, rs) ==
    IF ~ transport(rs[1]) /\ rs[1].status # "success" THEN Return("", 1)
    ELSE IF variant = "ebay" THEN ebay_list_product(rs)
    ELSE IF variant \in {"amazon", "walmart"} THEN create_by_sku(rs[1])
    ELSE create_and_parse(rs[1])

list_product(variant, rs) ==
    IF variant = "ebay" THEN ebay_list_product(rs)
    ELSE IF variant \in {"amazon", "walmart"} THEN create_by_sku(rs[1])
    ELSE create_and_parse(rs[1])

\* try: return r.status_code == 200 / except: return False
guarded_status(r) ==
    IF transport(r) THEN Return("false", 1)
    ELSE Return(IF r.status = "success" THEN "true" ELSE "false", 1)

\* return r.status_code == 200, no try
unguarded_status(r, calls) ==
    IF transport(r) THEN RaiseWith("transport", calls)
    ELSE Return(IF r.status = "success" THEN "true" ELSE "false", calls)

\* WalmartClient._get_token, run by the constructor
walmart_token(r) ==
    IF transport(r) \/ r.status # "success" \/ undecodable(r) THEN Null ELSE "token"

validate_connection(variant, rs) ==
    IF variant \in {"etsy", "facebook"} THEN unguarded_status(rs[1], 1)
    ELSE IF variant = "walmart"
         THEN Return(IF walmart_token(rs[1]) # Null THEN "true" ELSE "false", 1)
         ELSE guarded_status(rs[1])

orders_of(variant) ==
    [i \in DOMAIN ReportedOrders |->
        [external_order_id |-> ReportedOrders[i], platform |-> variant, id |-> Null]]

fetch_orders(variant, rs) ==
    IF variant \in {"facebook", "tiktok"} THEN Return(<<>>, 0)
    ELSE IF transport(rs[1]) THEN RaiseWith("transport", 1)
    ELSE IF rs[1].status # "success" THEN Return(<<>>, 1)
    ELSE IF undecodable(rs[1]) THEN RaiseWith("decode", 1)
    ELSE Return(orders_of(variant), 1)

\* the lookup call, then the update call
lookup_then_update(rs) ==
    IF transport(rs[1]) THEN RaiseWith("transport", 1)
    ELSE IF rs[1].status # "success" THEN Return("false", 1)
    ELSE IF undecodable(rs[1]) THEN RaiseWith("decode", 1)
    ELSE unguarded_status(rs[2], 2)

ebay_update_inventory(rs) ==
    IF transport(rs[1]) THEN RaiseWith("transport", 1)
    ELSE IF rs[1].status # "success" THEN Return("false", 1)
    ELSE IF undecodable(rs[1]) THEN RaiseWith("decode", 1)
    ELSE IF transport(rs[2]) THEN RaiseWith("transport", 2)
    ELSE unguarded_status(rs[3], 3)

update_inventory(variant, rs) ==
    IF variant = "tiktok" THEN Return("false", 0)
    ELSE IF variant = "shopify" THEN lookup_then_update(rs)
    ELSE IF variant = "ebay" THEN ebay_update_inventory(rs)
    ELSE unguarded_status(rs[1], 1)

update_price(variant, rs) ==
    IF variant = "tiktok" THEN Return("false", 0)
    ELSE IF variant \in {"shopify", "ebay"} THEN lookup_then_update(rs)
    ELSE unguarded_status(rs[1], 1)

AdapterMethods ==
    {"validate_connection", "list_product", "update_inventory", "update_price",
     "fetch_orders"}

adapter_call(variant, method, rs) ==
    CASE method = "validate_connection" -> validate_connection(variant, rs)
      [] method = "list_product" -> list_product(variant, rs)
      [] method = "update_inventory" -> update_inventory(variant, rs)
      [] method = "update_price" -> update_price(variant, rs)
      [] method = "fetch_orders" -> fetch_orders(variant, rs)

\* a method call on an adapter, with the answers the platform will give
PendingCalls ==
    [op : {"pending_call"}, variant : AdapterVariants, method : AdapterMethods,
     answers : [1..MaxRemoteCalls -> Answers], result : {Return("", 0)},
     raised : {FALSE}]

AdapterCall ==
    /\ last.op = "pending_call"
    /\ get_client(last.variant) # NoClient
    /\ last' = [last EXCEPT
                    !.op = "adapter_call",
                    !.result = adapter_call(last.variant, last.method, last.answers)]
    /\ UNCHANGED <<creds, products, listings, orders, now, inflight>>

-----------------------------------------------------------------------------

(* Catalog ingestion *)

MaxRecords == 2                 \* rows of one inventory file

\* a cell of the sku column as pandas hands it over: a text, or NaN for a
\* cell left empty
NaN == "NaN"
SkuCells == {"ABC-1", "NEW-1", " ", NaN}

\* str(row.get('sku', '')).strip()
sku_of(cell) ==
    IF cell = NaN THEN "nan" ELSE IF cell = " " THEN "" ELSE cell

\* a cell of a numeric column: a number, or a text float() and int() reject
Num(v) == [is_number |-> TRUE, value |-> v]
NotANumber == [is_number |-> FALSE, value |-> 0]

Records ==
    [sku : SkuCells, title : {"T1", "T2"}, price : {Num(15000), NotANumber},
     quantity : {Num(7), NotANumber}]

Files == UNION {[1..n -> Records] : n \in 1..MaxRecords}

NoId == 0                       \* id of an object not yet flushed
NoPrice == -1                   \* price not set
NoQuantity == -1                \* quantity not set

\* Product(sku=sku): not yet flushed, columns unset
new_product(sku) ==
    [id |-> NoId, sku |-> sku, title |-> Null, price |-> NoPrice,
     cost_price |-> NoCost, quantity |-> NoQuantity, updated_at |-> NoTime]

\* the assignments of one row; a failed conversion keeps the old value
assign_row(product, row) ==
    [product EXCEPT
        !.title = row.title,
        !.price = IF row.price.is_number THEN row.price.value ELSE @,
        !.quantity = IF row.quantity.is_number THEN row.quantity.value ELSE @]

\* the loop over the rows. table: the stored rows as the session holds them
\* (loaded objects keep their changes); pending: the objects added and not
\* flushed, which the query does not see (autoflush=False)
RECURSIVE ingest_rows(_, _, _, _)
ingest_rows(file, i, table, pending) ==
    IF i > Len(file) THEN [table |-> table, pending |-> pending]
    ELSE LET row == file[i]
             sku == sku_of(row.sku)
             found == {p \in table : p.sku = sku}
         IN  IF sku = "" THEN ingest_rows(file, i + 1, table, pending)
             ELSE IF found # {}
             THEN LET product == CHOOSE p \in found : TRUE
                  IN  ingest_rows(file, i + 1,
                                  (table \ {product}) \cup {assign_row(product, row)},
                                  pending)
             ELSE ingest_rows(file, i + 1, table,
                              Append(pending, assign_row(new_product(sku), row)))

\* the constraints the INSERTs of the commit meet: sku unique, price NOT NULL
flush_fails(table, pending) ==
    \/ \E i \in DOMAIN pending : pending[i].price = NoPrice
    \/ \E i, j \in DOMAIN pending : i # j /\ pending[i].sku = pending[j].sku
    \/ \E i \in DOMAIN pending : \E p \in table : p.sku = pending[i].sku

MaxId(table) ==
    IF table = {} THEN 0 ELSE CHOOSE n \in {p.id : p \in table} :
                                  \A p \in table : p.id <= n

\* the whole of ingest_csv: the loop, the commit, and the rollback and
\* re-raise of the except branch
ingest_csv(file, table, at) ==
    LET session == ingest_rows(file, 1, table, <<>>)
        pending == session.pending
        updated == {IF p \in table THEN p ELSE [p EXCEPT !.updated_at = at] :
                        p \in session.table}
        inserted == {[pending[i] EXCEPT
                         !.id = MaxId(table) + i,
                         !.quantity = IF @ = NoQuantity THEN 0 ELSE @] :
                         i \in DOMAIN pending}
    IN  IF flush_fails(session.table, pending)
        THEN [products |-> table, raised |-> TRUE]
        ELSE [products |-> updated \cup inserted, raised |-> FALSE]

PendingIngests ==
    [op : {"pending_ingest"}, file : Files, before : {{}}, raised : {FALSE}]

IngestCsv ==
    /\ last.op = "pending_ingest"
    /\ LET r == ingest_csv(last.file, products, now)
       IN  /\ products' = r.products
           /\ last' = [last EXCEPT !.op = "ingest_csv", !.before = products,
                                   !.raised = r.raised]
    /\ UNCHANGED <<creds, listings, orders, now, inflight>>

-----------------------------------------------------------------------------

(* Concurrent requests: each request runs on a session of its own, and the *)
(* steps of different requests interleave at their database round trips    *)

MaxRequests == 2                \* requests served at the same time

Requests == 1..MaxRequests

\* the UPDATE of a loaded row: the columns whose value was changed in the
\* session are written to the row with the same primary key
write_back(current, loaded, changed) ==
    [col \in DOMAIN current |->
        IF col \in DOMAIN changed /\ changed[col] # loaded[col]
        THEN changed[col] ELSE current[col]]

\* the commit of publish_product: the INSERT of a new listing when the lookup
\* found none, the UPDATE of the loaded listing otherwise
write_listing(rows, found, product, platform, ext_id) ==
    IF found = {}
    THEN rows \cup {[id |-> NextId(rows), product_id |-> product.id,
                     platform |-> platform, external_id |-> ext_id,
                     status |-> "active", price |-> product.price,
                     last_synced_at |-> NoTime]}
    ELSE LET loaded == CHOOSE l \in found : TRUE
             current == RowById(rows, loaded.id)
         IN  (rows \ {current}) \cup
             {write_back(current, loaded,
                         [external_id |-> ext_id, status |-> "active",
                          price |-> product.price])}

PublishRequest(sku, platform) ==
    [op |-> "publish_product", pc |-> "start", sku |-> sku, platform |-> platform,
     ext_id |-> "", found |-> {}]

\* the product lookup, get_client and list_product
PublishCall(r) ==
    /\ inflight[r].op = "publish_product"
    /\ inflight[r].pc = "start"
    /\ \E out \in ExtIds(inflight[r].platform) \cup {Raise} :
          inflight' = [inflight EXCEPT ![r] =
              IF \/ {p \in products : p.sku = inflight[r].sku} = {}
                 \/ get_client(inflight[r].platform) = NoClient
                 \/ out = Raise
              THEN [@ EXCEPT !.pc = "done"]
              ELSE [@ EXCEPT !.pc = "listed", !.ext_id = out]]
    /\ last' = Observation("publish_call")
    /\ UNCHANGED <<creds, products, listings, orders, now>>

\* the listing lookup
PublishFind(r) ==
    /\ inflight[r].op = "publish_product"
    /\ inflight[r].pc = "listed"
    /\ LET product == CHOOSE p \in products : p.sku = inflight[r].sku
       IN  inflight' = [inflight EXCEPT ![r] =
               [@ EXCEPT !.pc = "found",
                         !.found = first_listing(listings, product.id,
                                                 inflight[r].platform)]]
    /\ last' = Observation("publish_find")
    /\ UNCHANGED <<creds, products, listings, orders, now>>

\* the assignments and the commit
PublishCommit(r) ==
    /\ inflight[r].op = "publish_product"
    /\ inflight[r].pc = "found"
    /\ LET product == CHOOSE p \in products : p.sku = inflight[r].sku
       IN  listings' = write_listing(listings, inflight[r].found, product,
                                     inflight[r].platform, inflight[r].ext_id)
    /\ inflight' = [inflight EXCEPT ![r] = [@ EXCEPT !.pc = "done"]]
    /\ last' = Observation("publish_commit")
    /\ UNCHANGED <<creds, products, orders, now>>

AllDone == \A r \in DOMAIN inflight : inflight[r].pc = "done"

-----------------------------------------------------------------------------

(* sync_inventory and run_pricing_engine as concurrent requests *)

InventoryRequest ==
    [op |-> "sync_inventory", pc |-> "start", loaded |-> {}, todo |-> <<>>,
     expired |-> FALSE, outs |-> <<>>, calls |-> <<>>]

\* the query for the active listings
InventoryLoad(r) ==
    /\ inflight[r].op = "sync_inventory"
    /\ inflight[r].pc = "start"
    /\ LET active == {l \in listings : l.status = "active"}
       IN  inflight' = [inflight EXCEPT ![r] =
               [@ EXCEPT !.pc = IF active = {} THEN "done" ELSE "loop",
                         !.loaded = active,
                         !.todo = SortedIds({l.id : l \in active})]]
    /\ last' = Observation("inventory_load")
    /\ UNCHANGED <<creds, products, listings, orders, now>>

\* one pass of the loop: get_client, update_inventory, the assignment of
\* last_synced_at and the commit, after which the session reloads its objects
InventoryStep(r) ==
    /\ inflight[r].op = "sync_inventory"
    /\ inflight[r].pc = "loop"
    /\ LET req == inflight[r]
           id == Head(req.todo)
           listing == IF req.expired THEN RowById(listings, id)
                      ELSE RowById(req.loaded, id)
           product == CHOOSE p \in products : p.id = listing.product_id
           rest == [req EXCEPT !.todo = Tail(@),
                               !.pc = IF Tail(req.todo) = <<>> THEN "done" ELSE "loop"]
           called == [rest EXCEPT !.calls =
                         Append(@, Call("update_inventory", listing.platform,
                                        listing.external_id, product.quantity))]
       IN  IF get_client(listing.platform) = NoClient
           THEN inflight' = [inflight EXCEPT ![r] = rest] /\ listings' = listings
           ELSE \E out \in {"true", "false", Raise} :
                  /\ inflight' = [inflight EXCEPT ![r] =
                         [called EXCEPT !.outs = (id :> out) @@ @,
                                        !.expired = (out # Raise) \/ @]]
                  /\ listings' =
                         IF out = Raise THEN listings
                         ELSE (listings \ {RowById(listings, id)}) \cup
                              {write_back(RowById(listings, id), listing,
                                          [last_synced_at |-> now])}
    /\ last' = Observation("inventory_step")
    /\ UNCHANGED <<creds, products, orders, now>>

PricingRequest ==
    [op |-> "run_pricing_engine", pc |-> "start", loaded |-> {}, session |-> {},
     todo |-> <<>>, seen |-> {}, tie_up |-> FALSE, calls |-> <<>>]

\* the query for all products
PricingLoad(r) ==
    /\ inflight[r].op = "run_pricing_engine"
    /\ inflight[r].pc = "start"
    /\ \E tie_up \in BOOLEAN :
          inflight' = [inflight EXCEPT ![r] =
              [@ EXCEPT !.pc = IF products = {} THEN "commit" ELSE "loop",
                        !.loaded = products, !.session = products,
                        !.todo = SortedIds({p.id : p \in products}),
                        !.tie_up = tie_up]]
    /\ last' = Observation("pricing_load")
    /\ UNCHANGED <<creds, products, listings, orders, now>>

\* one pass of the loop over the products: the rule, the assignment of the
\* price in the session, and the update_price calls for p.listings, which the
\* session loads at this point
PricingStep(r) ==
    /\ inflight[r].op = "run_pricing_engine"
    /\ inflight[r].pc = "loop"
    /\ LET req == inflight[r]
           p == RowById(req.session, Head(req.todo))
           mine == {l \in listings : l.product_id = p.id}
           rest == [req EXCEPT !.todo = Tail(@),
                               !.pc = IF Tail(req.todo) = <<>> THEN "commit" ELSE "loop"]
       IN  inflight' = [inflight EXCEPT ![r] =
               IF decays(p, req.tie_up)
               THEN [rest EXCEPT
                        !.session = (@ \ {p}) \cup
                            {[p EXCEPT !.price = new_price(p, req.tie_up)]},
                        !.seen = @ \cup mine,
                        !.calls = push_price(SortedIds({l.id : l \in mine}),
                                             new_price(p, req.tie_up),
                                             [l \in mine |-> "true"], @)]
               ELSE rest]
    /\ last' = Observation("pricing_step")
    /\ UNCHANGED <<creds, products, listings, orders, now>>

\* variant: the commit also writes the listings back as the session saw them
pricing_commit_with_listings(req, prods, rows) ==
    [products |->
        {IF RowById(req.session, p.id) = RowById(req.loaded, p.id) THEN p
         ELSE [write_back(p, RowById(req.loaded, p.id),
                          [price |-> RowById(req.session, p.id).price])
                  EXCEPT !.updated_at = now] : p \in prods},
     listings |-> {l \in rows : l.id \notin {s.id : s \in req.seen}} \cup req.seen]

\* the commit at the end of run_pricing_engine: an UPDATE for every product
\* whose price was assigned; updated_at is set by the UPDATE
pricing_commit(req, prods, rows) ==
    [products |->
        {IF RowById(req.session, p.id) = RowById(req.loaded, p.id) THEN p
         ELSE [write_back(p, RowById(req.loaded, p.id),
                          [price |-> RowById(req.session, p.id).price])
                  EXCEPT !.updated_at = now] : p \in prods},
     listings |-> rows]

PricingCommit(r) ==
    /\ inflight[r].op = "run_pricing_engine"
    /\ inflight[r].pc = "commit"
    /\ LET written == pricing_commit(inflight[r], products, listings)
       IN  /\ products' = written.products
           /\ listings' = written.listings
    /\ inflight' = [inflight EXCEPT ![r] = [@ EXCEPT !.pc = "done"]]
    /\ last' = Observation("pricing_commit")
    /\ UNCHANGED <<creds, orders, now>>

-----------------------------------------------------------------------------

(* sync_orders as a concurrent request *)

OrdersRequest(resp) ==
    [op |-> "sync_orders", pc |-> "fetch", i |-> 1, resp |-> resp, batch |-> <<>>,
     k |-> 1, pending |-> <<>>, broken |-> FALSE, raised |-> FALSE]

\* the head of the loop over the credential rows: get_client, which raises on
\* a session whose commit failed, and fetch_orders
OrdersFetch(r) ==
    /\ inflight[r].op = "sync_orders"
    /\ inflight[r].pc = "fetch"
    /\ LET req == inflight[r]
           platform == creds[req.i].platform
       IN  inflight' = [inflight EXCEPT ![r] =
               IF req.i > Len(creds) THEN [req EXCEPT !.pc = "done"]
               ELSE IF req.broken THEN [req EXCEPT !.pc = "done", !.raised = TRUE]
               ELSE IF get_client(platform) = NoClient \/ req.resp[platform].raises
               THEN [req EXCEPT !.i = @ + 1]
               ELSE [req EXCEPT !.pc = "check", !.k = 1, !.pending = <<>>,
                                !.batch = req.resp[platform].orders]]
    /\ last' = Observation("orders_fetch")
    /\ UNCHANGED <<creds, products, listings, orders, now>>

\* the existence check of one fetched order, and db.add
OrdersCheck(r) ==
    /\ inflight[r].op = "sync_orders"
    /\ inflight[r].pc = "check"
    /\ LET req == inflight[r]
           platform == creds[req.i].platform
       IN  inflight' = [inflight EXCEPT ![r] =
               IF req.k > Len(req.batch) THEN [req EXCEPT !.pc = "commit"]
               ELSE [req EXCEPT
                        !.k = @ + 1,
                        !.pending =
                            IF order_exists(orders, req.batch[req.k].external_order_id,
                                            platform)
                            THEN @ ELSE Append(@, req.batch[req.k])]]
    /\ last' = Observation("orders_check")
    /\ UNCHANGED <<creds, products, listings, orders, now>>

\* the commit of the batch; a failed commit is logged and not rolled back
OrdersCommit(r) ==
    /\ inflight[r].op = "sync_orders"
    /\ inflight[r].pc = "commit"
    /\ LET req == inflight[r]
           platform == creds[req.i].platform
           ok == flush_ok(orders, req.pending)
       IN  /\ orders' = IF ok THEN insert_orders(orders, platform, req.pending)
                        ELSE orders
           /\ inflight' = [inflight EXCEPT ![r] =
                  [req EXCEPT !.pc = "fetch", !.i = @ + 1, !.broken = ~ ok]]
    /\ last' = Observation("orders_commit")
    /\ UNCHANGED <<creds, products, listings, now>>

-----------------------------------------------------------------------------

(* Initial database contents *)

CredTables ==
    {c \in SeqsUpTo([platform : Platforms], Cardinality(Platforms)) :
        \A i, j \in DOMAIN c : i # j => c[i].platform # c[j].platform}

ProductRows(prices, costs, quantities, stamps) ==
    [id : {1}, sku : SKUs, title : {"Old title"}, price : prices,
     cost_price : costs, quantity : quantities, updated_at : stamps]

\* a listing stored by an earlier run of the service
StoredListings(prods) ==
    [id : {1}, product_id : {p.id : p \in prods}, platform : Platforms,
     external_id : {"e0"}, status : ListingStatuses,
     price : {20000}, last_synced_at : {NoTime}]

Cred(platform) == [platform |-> platform]

InitWith(cred_tables, product_rows, stored_listings, start) ==
    /\ creds \in cred_tables
    /\ \E p \in product_rows : products = {p}
    /\ listings \in {{}} \cup {{l} : l \in {x \in StoredListings(products) :
                                               <<x.platform, x.status>> \in stored_listings}}
    /\ orders = {}
    /\ now = start
    /\ last = Observation("init")
    /\ inflight = NoRequests

Init ==
    InitWith(CredTables, ProductRows({20000}, {10000}, {5}, {0}),
             Platforms \X ListingStatuses, MaxNow - 1)

Next ==
    \/ PublishProduct
    \/ SyncInventory
    \/ SyncOrders
    \/ RunPricingEngine
    \/ Tick

Spec == Init /\ [][Next]_vars

(* Publish, SyncInventory and SyncOrders with a single credential row *)
InitSkip ==
    InitWith({<<Cred("shopify")>>},
             ProductRows({20000}, {10000}, {5}, {0}),
             {<<"ebay", "active">>, <<"bogus", "active">>, <<"shopify", "active">>},
             MaxNow)

NextSkip == PublishProduct \/ SyncInventory \/ SyncOrders

SpecSkip == InitSkip /\ [][NextSkip]_vars

(* Publish with two credentialed adapters; the stored listing carries an older price *)
InitPublish ==
    InitWith({<<Cred("shopify"), Cred("ebay")>>},
             ProductRows({18000}, {10000}, {5}, {0}),
             {<<"ebay", "error">>, <<"shopify", "active">>},
             MaxNow)

NextPublish == PublishProduct

SpecPublish == InitPublish /\ [][NextPublish]_vars

(* SyncOrders with two credentialed adapters *)
InitOrders ==
    /\ InitWith({<<Cred("shopify"), Cred("ebay")>>},
                ProductRows({20000}, {10000}, {5}, {0}),
                {<<"shopify", "active">>}, MaxNow)
    /\ listings # {}

NextOrders == SyncOrders

SpecOrders == InitOrders /\ [][NextOrders]_vars

(* The pricing engine over a range of products *)
InitPricing ==
    InitWith({<<Cred("shopify")>>, <<Cred("shopify"), Cred("ebay")>>},
             ProductRows({20000, 250, 11220}, {NoCost, 0, 10000, 19000, 10050},
                         {0, 5}, {NoTime, 0, 20, 21}),
             {<<"shopify", "active">>, <<"shopify", "draft">>, <<"ebay", "active">>},
             MaxNow - 2)

NextPricing == RunPricingEngine \/ Tick

SpecPricing == InitPricing /\ [][NextPricing]_vars

(* SyncInventory while time passes *)
InitInventory ==
    /\ InitWith({<<Cred("shopify")>>, <<Cred("shopify"), Cred("ebay")>>},
                ProductRows({20000}, {10000}, {0, 5}, {0}),
                {<<"shopify", "active">>, <<"ebay", "active">>, <<"shopify", "draft">>},
                MaxNow - 4)
    /\ listings # {}

NextInventory == SyncInventory \/ Tick

SpecInventory == InitInventory /\ [][NextInventory]_vars

(* Credential rows with their columns and extras, resolved by get_client *)
ConfigBags ==
    {NoConfig} \cup
    {[is_null |-> FALSE, items |-> items] :
        items \in UNION {[keys -> {"x"}] : keys \in SUBSET ExtraKeys}}

CredRows ==
    [platform : AdapterVariants \cup {"bogus"},
     api_key : {Null}, api_secret : {Null},
     access_token : {Null, "tok"}, refresh_token : {Null},
     marketplace_id : {Null, "MKT"}, merchant_id : {Null},
     additional_config : ConfigBags]

InitCredentials ==
    /\ creds \in {<<>>} \cup {<<r>> : r \in CredRows}
    /\ products = {}
    /\ listings = {}
    /\ orders = {}
    /\ now = MaxNow
    /\ last = Observation("init")
    /\ inflight = NoRequests

NextCredentials == GetClient \/ SaveCredentials

SpecCredentials == InitCredentials /\ [][NextCredentials]_vars

(* Every adapter method against every pattern of remote answers *)
InitAdapters ==
    /\ creds \in {<<Cred("shopify"), Cred("ebay"), Cred("amazon"), Cred("walmart"),
                    Cred("etsy"), Cred("facebook"), Cred("tiktok")>>}
    /\ \E p \in ProductRows({20000}, {10000}, {5}, {0}) : products = {p}
    /\ listings = {}
    /\ orders = {}
    /\ now = MaxNow
    /\ last \in PendingCalls
    /\ inflight = NoRequests

NextAdapters == AdapterCall

SpecAdapters == InitAdapters /\ [][NextAdapters]_vars

\* ingestion slice: an empty catalog or one stored product, and one file
InitIngest ==
    /\ creds = <<>>
    /\ products \in {{}} \cup {{p} : p \in ProductRows({20000}, {10000}, {5}, {0})}
    /\ listings = {}
    /\ orders = {}
    /\ now = MaxNow
    /\ last \in PendingIngests
    /\ inflight = NoRequests

NextIngest == IngestCsv

SpecIngest == InitIngest /\ [][NextIngest]_vars

(* The pricing engine over a product listed on two platforms *)
TwoListings(prods) ==
    {{[id |-> 1, product_id |-> p.id, platform |-> "shopify", external_id |-> "e1",
       status |-> s1, price |-> 20000, last_synced_at |-> NoTime],
      [id |-> 2, product_id |-> p.id, platform |-> "ebay", external_id |-> "e2",
       status |-> s2, price |-> 20000, last_synced_at |-> NoTime]} :
        p \in prods, s1 \in ListingStatuses, s2 \in ListingStatuses}

InitFanout ==
    /\ creds \in {<<Cred("shopify")>>, <<Cred("shopify"), Cred("ebay")>>}
    /\ \E p \in ProductRows({20000}, {NoCost, 19900}, {0, 5}, {0, 21}) : products = {p}
    /\ listings \in TwoListings(products)
    /\ orders = {}
    /\ now = MaxNow - 2
    /\ last = Observation("init")
    /\ inflight = NoRequests

NextFanout == RunPricingEngine \/ Tick

SpecFanout == InitFanout /\ [][NextFanout]_vars

(* SyncInventory over a product listed on two platforms *)
InitStock ==
    /\ creds \in {<<Cred("shopify")>>, <<Cred("shopify"), Cred("ebay")>>}
    /\ \E p \in ProductRows({20000}, {10000}, {0, 5}, {0}) : products = {p}
    /\ listings \in TwoListings(products)
    /\ orders = {}
    /\ now = MaxNow - 1
    /\ last = Observation("init")
    /\ inflight = NoRequests

NextStock == SyncInventory \/ Tick

SpecStock == InitStock /\ [][NextStock]_vars

(* The four operations of the service over one stored listing *)
InitStatus ==
    InitWith({<<Cred("ebay")>>}, ProductRows({20000}, {10000}, {5}, {0}),
             {"ebay"} \X ListingStatuses, MaxNow)

NextStatus == PublishProduct \/ SyncInventory \/ SyncOrders \/ RunPricingEngine

SpecStatus == InitStatus /\ [][NextStatus]_vars

(* Concurrent publishes of one product on one platform *)
InitRace ==
    /\ creds = <<Cred("shopify"), Cred("ebay")>>
    /\ \E p \in ProductRows({18000}, {10000}, {5}, {0}) : products = {p}
    /\ listings \in {{}} \cup {{l} : l \in {x \in StoredListings(products) :
                                               x.platform \in {"shopify", "ebay"}}}
    /\ orders = {}
    /\ now = MaxNow
    /\ last = Observation("init")
    /\ \E platform \in {"shopify", "ebay"} :
          inflight = [r \in Requests |-> PublishRequest("ABC-1", platform)]

NextRace == \E r \in Requests : PublishCall(r) \/ PublishFind(r) \/ PublishCommit(r)

SpecRace == InitRace /\ [][NextRace]_vars

(* One sync_inventory and one run_pricing_engine at the same time *)
InitMix ==
    /\ creds \in {<<Cred("shopify")>>, <<Cred("shopify"), Cred("ebay")>>}
    /\ \E p \in ProductRows({20000}, {NoCost}, {0, 5}, {0}) : products = {p}
    /\ listings \in {ls \in TwoListings(products) :
                        \A l \in ls : l.status \in {"active", "draft"}}
    /\ orders = {}
    /\ now = MaxNow
    /\ last = Observation("init")
    /\ inflight = <<InventoryRequest, PricingRequest>>

NextMix ==
    \E r \in DOMAIN inflight :
        \/ InventoryLoad(r)
        \/ InventoryStep(r)
        \/ PricingLoad(r)
        \/ PricingStep(r)
        \/ PricingCommit(r)

SpecMix == InitMix /\ [][NextMix]_vars

(* Two sync_orders runs at the same time, both given the same answers *)
InitTwoSyncs ==
    /\ creds \in {<<Cred("shopify")>>, <<Cred("shopify"), Cred("ebay")>>}
    /\ \E p \in ProductRows({20000}, {10000}, {5}, {0}) : products = {p}
    /\ listings = {}
    /\ orders = {}
    /\ now = MaxNow
    /\ last = Observation("init")
    /\ \E resp \in FetchOutcomes : inflight = [r \in Requests |-> OrdersRequest(resp)]

NextTwoSyncs == \E r \in Requests : OrdersFetch(r) \/ OrdersCheck(r) \/ OrdersCommit(r)

SpecTwoSyncs == InitTwoSyncs /\ [][NextTwoSyncs]_vars

TypeOK ==
    /\ now \in 0..MaxNow
    /\ \A l \in listings : l.status \in ListingStatuses

-----------------------------------------------------------------------------
(* Vocabulary of the properties *)

NoCredentials(P) == ~ \E i \in DOMAIN creds : creds[i].platform = P

CallsTo(obs, P) == {i \in DOMAIN obs.calls : obs.calls[i].platform = P}

ListingsOn(rows, P) == {l \in rows : l.platform = P}

OrdersOn(rows, P) == {o \in rows : o.platform = P}

ProductsWithSku(sku) == {p \in products : p.sku = sku}

\* the positions of a publish at which list_product returned an identifier for P
Succeeded(obs, P) ==
    {i \in DOMAIN obs.platforms : obs.platforms[i] = P /\ obs.outs[i] \in ExtIds(P)}

\* the update_price calls of a run that belong to a listing of product p
PriceCallsFor(obs, p) ==
    {i \in DOMAIN obs.calls :
        /\ obs.calls[i].fn = "update_price"
        /\ \E l \in listings : /\ l.product_id = p.id
                               /\ l.platform = obs.calls[i].platform
                               /\ l.external_id = obs.calls[i].ext}

\* more than 30 whole days lie between the last update and now
OlderThan30Days(p) ==
    p.updated_at # NoTime /\ now - p.updated_at >= (DecayDays + 1) * TicksPerDay

\* the amounts with two decimals nearest to 0.98 * price
NearestCents(price) ==
    {c \in {10 * ((98 * price) \div 1000), 10 * (((98 * price) \div 1000) + 1)} :
        100 * c - 98 * price <= 500 /\ 98 * price - 100 * c <= 500}

FloorOf(p) == IF p.cost_price = NoCost THEN 0 ELSE (11 * p.cost_price) \div 10

Clamped(c, p) == IF c < FloorOf(p) THEN FloorOf(p) ELSE c

PriceAfter(p) == {q.price : q \in {x \in products' : x.id = p.id}}

-----------------------------------------------------------------------------
\* C1: for every platform P without a stored credential record get_client(P)
\* returns no adapter, and a Publish that names P, a SyncInventory over an
\* active listing on P and a SyncOrders each return without raising, make no
\* adapter call for P and leave the listings and orders of P as they were.
C1_SkipsUnconfiguredPlatform ==
    [][\A P \in Platforms : NoCredentials(P) =>
          /\ get_client(P) = NoClient
          /\ ( \/ /\ last'.op = "publish_product"
                  /\ \E i \in DOMAIN last'.platforms : last'.platforms[i] = P
               \/ /\ last'.op = "sync_inventory"
                  /\ \E l \in ListingsOn(listings, P) : l.status = "active"
               \/ last'.op = "sync_orders" )
             => /\ ~ last'.raised
                /\ CallsTo(last', P) = {}
                /\ ListingsOn(listings', P) = ListingsOn(listings, P)
                /\ OrdersOn(orders', P) = OrdersOn(orders, P)]_vars

\* C2: a Publish never raises, and the platforms for which it leaves a created
\* or updated listing are exactly the requested platforms whose list_product
\* returned: a raise on one platform neither stops a later platform nor undoes
\* an earlier one.
C2_PublishIsolatesPlatforms ==
    [][last'.op = "publish_product" =>
          /\ ~ last'.raised
          /\ \A P \in Platforms :
                IF Succeeded(last', P) # {}
                THEN \E l \in ListingsOn(listings', P) :
                        /\ l.product_id \in {p.id : p \in ProductsWithSku(last'.sku)}
                        /\ l.status = "active"
                        /\ l.external_id \in {last'.outs[i] : i \in Succeeded(last', P)}
                ELSE ListingsOn(listings', P) = ListingsOn(listings, P)]_vars

C2_Witness ==
    /\ last.op = "publish_product"
    /\ last.platforms = <<"shopify", "ebay">>
    /\ last.outs = <<Raise, "b1">>
    /\ \E l \in listings : l.platform = "ebay" /\ l.external_id = "b1"
    /\ ListingsOn(listings, "shopify") = {}

\* C3: after a Publish whose list_product returned an identifier for platform
\* P, the listing of (product, P) carries that identifier, status 'active' and
\* the product's current price.
C3_ListingCarriesResult ==
    last.op = "publish_product" =>
        \A P \in Platforms : Succeeded(last, P) # {} =>
            \A p \in ProductsWithSku(last.sku) :
                LET ls == {l \in ListingsOn(listings, P) : l.product_id = p.id}
                IN  /\ ls # {}
                    /\ \A l \in ls :
                          /\ l.external_id = last.outs[Max(Succeeded(last, P))]
                          /\ l.status = "active"
                          /\ l.price = p.price

C3_Witness ==
    /\ last.op = "publish_product"
    /\ Succeeded(last, "shopify") # {}
    /\ \E p \in products : p.price = 18000
    /\ \E l \in listings :
          l.id = 1 /\ l.platform = "shopify" /\ l.external_id = "s2" /\ l.price = 18000

\* C4: the order table never holds two orders with the same
\* (external_order_id, platform), and a SyncOrders run that repeats the
\* responses of the run before it inserts no order.
C4_OrdersImportedOnce ==
    /\ \A o1, o2 \in orders :
          (o1.external_order_id = o2.external_order_id /\ o1.platform = o2.platform)
              => o1 = o2
    /\ (last.op = "sync_orders" /\ last.repeat) => last.inserted = 0

C4_Witness ==
    /\ last.op = "sync_orders"
    /\ last.repeat
    /\ \E o \in orders :
          /\ o.platform \in DOMAIN last.outs
          /\ ~ last.outs[o.platform].raises
          /\ \E i \in DOMAIN last.outs[o.platform].orders :
                last.outs[o.platform].orders[i].external_order_id = o.external_order_id

\* C5: when two platforms both report an order with the same
\* external_order_id, SyncOrders stores it for both platforms.
C5_SameIdOnTwoPlatforms ==
    last.op = "sync_orders" =>
        \A P, Q \in DOMAIN last.outs :
            (P # Q /\ ~ last.outs[P].raises /\ ~ last.outs[Q].raises) =>
                \A i \in DOMAIN last.outs[P].orders, j \in DOMAIN last.outs[Q].orders :
                    LET id == last.outs[P].orders[i].external_order_id
                    IN  id = last.outs[Q].orders[j].external_order_id =>
                            /\ order_exists(orders, id, P)
                            /\ order_exists(orders, id, Q)

\* C6: a SyncOrders run only adds orders: every stored order stays as it is,
\* also when its platform now reports another status, and no product and no
\* listing changes.
C6_SyncOrdersOnlyInserts ==
    [][last'.op = "sync_orders" =>
          /\ orders \subseteq orders'
          /\ products' = products
          /\ listings' = listings]_vars

C6_Witness ==
    /\ last.op = "sync_orders"
    /\ last.inserted = 0
    /\ products # {}
    /\ listings # {}
    /\ \E o \in orders :
          /\ o.status = "paid"
          /\ o.platform \in DOMAIN last.outs
          /\ ~ last.outs[o.platform].raises
          /\ \E i \in DOMAIN last.outs[o.platform].orders :
                last.outs[o.platform].orders[i] =
                    [external_order_id |-> o.external_order_id, status |-> "shipped"]

C8_NoDecayFrame ==
    [][last'.op = "run_pricing_engine" =>
          \A p \in products :
              ( \/ p.quantity = 0
                \/ p.updated_at = NoTime
                \/ now - p.updated_at <= DecayDays * TicksPerDay )
              => /\ PriceAfter(p) = {p.price}
                 /\ PriceCallsFor(last', p) = {}]_vars

C8_Witness ==
    /\ last.op = "run_pricing_engine"
    /\ last.calls = <<>>
    /\ \E p \in products :
          /\ p.quantity = 0
          /\ p.price = 20000
          /\ p.cost_price = 10000
          /\ OlderThan30Days(p)
          /\ \E l \in listings :
                l.product_id = p.id /\ l.status = "active" /\ get_client(l.platform) # NoClient

\* C9: whenever a price changes it goes strictly down and not below the floor
\* cost_price * 1.10; and when the floor-clamped candidate is not below the
\* current price, RunPricingEngine keeps the price and calls update_price for
\* none of the product's listings.
C9_FloorAndStrictDecrease ==
    [][/\ \A p \in products : \A np \in PriceAfter(p) :
              np # p.price => (np < p.price /\ np >= FloorOf(p))
       /\ last'.op = "run_pricing_engine" =>
              \A p \in products :
                  (\A c \in NearestCents(p.price) : Clamped(c, p) >= p.price)
                  => /\ PriceAfter(p) = {p.price}
                     /\ PriceCallsFor(last', p) = {}]_vars

C9_Witness ==
    /\ last.op = "run_pricing_engine"
    /\ last.calls = <<>>
    /\ \E p \in products :
          /\ p.price = 20000
          /\ p.cost_price = 19000
          /\ p.quantity = 5
          /\ OlderThan30Days(p)
          /\ \E l \in listings :
                l.product_id = p.id /\ l.status = "active" /\ get_client(l.platform) # NoClient

\* C10: after any sequence of Publish operations the table holds at most one
\* listing per (product, platform); a re-publish updates the stored listing.
C10_OneListingPerPair ==
    \A l1, l2 \in listings :
        (l1.product_id = l2.product_id /\ l1.platform = l2.platform) => l1 = l2

C10_Witness ==
    /\ last.op = "publish_product"
    /\ Cardinality(listings) = 2
    /\ \E l \in listings :
          l.id = 1 /\ l.platform = "shopify" /\ l.external_id \in ExtIds("shopify")

\* C11: in a SyncInventory run a listing's last_synced_at is updated exactly
\* when update_inventory succeeded for it: when update_inventory returned
\* false or raised, last_synced_at keeps its value, and update_inventory is
\* called at most once per listing.
C11_SyncedOnlyOnSuccess ==
    [][last'.op = "sync_inventory" =>
          \A l \in listings : l.id \in DOMAIN last'.outs =>
              LET after == RowById(listings', l.id)
                  calls == {i \in DOMAIN last'.calls :
                               /\ last'.calls[i].platform = l.platform
                               /\ last'.calls[i].ext = l.external_id}
              IN  /\ Cardinality(calls) = 1
                  /\ IF last'.outs[l.id] = "true"
                     THEN after.last_synced_at = now
                     ELSE after.last_synced_at = l.last_synced_at]_vars

\* C12: Publish, SyncInventory, SyncOrders and RunPricingEngine each return
\* normally to their caller, whatever the adapters return or raise and also
\* when the SKU is unknown.
C12_NoErrorEscapes ==
    last.op \in {"publish_product", "sync_inventory", "sync_orders",
                 "run_pricing_engine"} => ~ last.raised

\* the credential row get_client(P) reads, and its extras bag as a map
HasRow(P) == \E i \in DOMAIN creds : creds[i].platform = P

RowOf(P) == CHOOSE r \in {creds[i] : i \in DOMAIN creds} : r.platform = P

BagOf(row) ==
    IF row.additional_config.is_null THEN EmptyBag ELSE row.additional_config.items

SevenVariants ==
    {"shopify", "ebay", "amazon", "walmart", "etsy", "facebook", "tiktok"}

\* C13: in the flat credential map get_client builds, every key of the
\* record's extras bag is present with the extras value, also when the key is
\* one that a named column fills; a record without extras bag resolves too.
C13_ExtrasWin ==
    last.op = "get_client" =>
        LET P == last.platforms[1]
        IN  (HasRow(P) /\ P \in SevenVariants) =>
                /\ last.outs.variant # NoClient
                /\ \A key \in DOMAIN BagOf(RowOf(P)) :
                      /\ key \in DOMAIN last.outs.credentials
                      /\ last.outs.credentials[key] = BagOf(RowOf(P))[key]

C13_Witness ==
    /\ last.op = "get_client"
    /\ last.platforms = <<"shopify">>
    /\ HasRow("shopify")
    /\ RowOf("shopify").access_token = "tok"
    /\ DOMAIN BagOf(RowOf("shopify")) = {"access_token", "catalog_id"}
    /\ last.outs.credentials["access_token"] = "x"
    /\ last.outs.credentials["catalog_id"] = "x"

\* C14: when the amazon record has no marketplace_id, neither in its column
\* nor in its extras, the adapter get_client('amazon') returns has the US
\* marketplace 'ATVPDKIKX0DER' as marketplace_id.
C14_AmazonDefaultMarketplace ==
    (/\ last.op = "get_client"
     /\ last.platforms = <<"amazon">>
     /\ HasRow("amazon")) =>
        ((/\ RowOf("amazon").marketplace_id = Null
          /\ "marketplace_id" \notin DOMAIN BagOf(RowOf("amazon")))
         => last.outs.marketplace_id = "ATVPDKIKX0DER")

\* C15 as stated: get_client(P) returns the adapter variant named P when P is
\* one of the seven variants and has a record, with the stored access_token
\* as its access_token, and none for every other name.
C15_TokenIsStoredToken ==
    last.op = "get_client" =>
        LET P == last.platforms[1]
        IN  IF HasRow(P) /\ P \in SevenVariants
            THEN /\ last.outs.variant = P
                 /\ last.outs.credentials["access_token"] = RowOf(P).access_token
                 /\ last.outs.access_token \in {NoAttr, RowOf(P).access_token}
            ELSE last.outs.variant = NoClient

\* C15: get_client(P) returns the adapter variant named P when P is one of
\* the seven variants and has a record, built from the resolved credentials:
\* its access_token is the stored access_token, or the extras' access_token
\* when the extras bag has one; for every other name it returns none, also
\* when a record with that name is stored.
C15_MatchingVariant ==
    last.op = "get_client" =>
        LET P == last.platforms[1]
        IN  IF HasRow(P) /\ P \in SevenVariants
            THEN LET token == IF "access_token" \in DOMAIN BagOf(RowOf(P))
                              THEN BagOf(RowOf(P))["access_token"]
                              ELSE RowOf(P).access_token
                 IN  /\ last.outs.variant = P
                     /\ last.outs.credentials["access_token"] = token
                     /\ last.outs.access_token \in {NoAttr, token}
            ELSE last.outs.variant = NoClient

C15_Witness ==
    /\ last.op = "get_client"
    /\ last.platforms = <<"amazon">>
    /\ HasRow("amazon")
    /\ RowOf("amazon").access_token = "k2"
    /\ last.outs.variant = "amazon"
    /\ last.outs.access_token = "k2"
    /\ HasRow("bogus")

\* the remote calls of a finished adapter call, and those of list_product that
\* create the product, the item or the offer
MadeCalls == 1..last.result.calls

CreationCalls == IF last.variant = "ebay" THEN {1, 2} ELSE {1}

Answered(i) == last.answers[i].status \in {"success", "failure"}

\* C16: for every adapter variant, when a remote call that creates the
\* listing answers with a non-success status, list_product raises an error
\* that carries the body of that answer and returns no identifier, and a
\* Publish getting that outcome stores no listing for the platform.
C16_ListProductRaisesOnFailure ==
    (last.op = "adapter_call" /\ last.method = "list_product") =>
        \A i \in CreationCalls :
            (/\ last.answers[i].status = "failure"
             /\ \A j \in 1..(i - 1) : last.answers[j].status = "success")
            => /\ last.result.raised
               /\ last.result.error = last.answers[i].body
               /\ last.result.value = ""
               /\ last.result.calls = i
               /\ publish_product("ABC-1", <<last.variant>>, <<Raise>>).listings
                      = listings

C16_Witness ==
    /\ last.op = "adapter_call"
    /\ last.method = "list_product"
    /\ last.variant = "ebay"
    /\ last.answers[1].status = "success"
    /\ last.answers[2] = [status |-> "failure", body |-> "payload"]
    /\ last.result.raised
    /\ last.result.error = "payload"

\* C17: for every adapter variant validate_connection never raises, and a
\* transport failure makes it return false.
C17_ValidateNeverRaises ==
    (last.op = "adapter_call" /\ last.method = "validate_connection") =>
        /\ ~ last.result.raised
        /\ last.answers[1].status = "transport" => last.result.value = "false"

\* C18: for every adapter variant fetch_orders never raises: after a transport
\* failure and after a non-success answer it returns the empty list, and
\* otherwise one new, not yet stored order per order the platform reported.
C18_FetchOrdersNeverRaises ==
    (last.op = "adapter_call" /\ last.method = "fetch_orders") =>
        /\ ~ last.result.raised
        /\ IF last.result.calls = 0 \/ last.answers[1].status # "success"
           THEN last.result.value = <<>>
           ELSE /\ Len(last.result.value) = Len(ReportedOrders)
                /\ \A i \in DOMAIN ReportedOrders :
                      /\ last.result.value[i].external_order_id = ReportedOrders[i]
                      /\ last.result.value[i].id = Null

\* C19: for every adapter variant update_inventory and update_price return
\* false without raising when one of the remote calls they make, the lookup
\* call included, answers with a non-success status, and return true only
\* when the last update call answered with success.
C19_UpdatesReturnFalse ==
    (/\ last.op = "adapter_call"
     /\ last.method \in {"update_inventory", "update_price"}
     /\ \A i \in MadeCalls : Answered(i) /\ last.answers[i].body = "payload") =>
        /\ (\E i \in MadeCalls : last.answers[i].status = "failure")
              => (~ last.result.raised /\ last.result.value = "false")
        /\ last.result.value = "true"
              => (last.result.calls > 0
                    /\ last.answers[last.result.calls].status = "success")


\* a record with a non-empty SKU, a file whose numeric cells are numbers, and
\* the last record of the file for its SKU
TextSku(cell) == cell \notin {NaN, " "}

AllNumbers ==
    \A i \in DOMAIN last.file :
        last.file[i].price.is_number /\ last.file[i].quantity.is_number

LastWith(i) ==
    \A j \in DOMAIN last.file : j > i => last.file[j].sku # last.file[i].sku

\* C20: after the ingestion of a file, every record with a non-empty SKU has
\* exactly one product with that SKU, carrying the title, price and quantity
\* of the record; a product already in the catalog is updated in place and
\* never doubled, and records with an empty SKU create nothing.
C20_UpsertBySku ==
    (last.op = "ingest_csv" /\ AllNumbers) =>
        /\ \A i \in DOMAIN last.file :
              TextSku(last.file[i].sku) =>
                  /\ Cardinality({p \in products : p.sku = last.file[i].sku}) = 1
                  /\ LastWith(i) =>
                        \A p \in products :
                            p.sku = last.file[i].sku =>
                                /\ p.title = last.file[i].title
                                /\ p.price = last.file[i].price.value
                                /\ p.quantity = last.file[i].quantity.value
        /\ \A p \in last.before :
              \E q \in products : q.id = p.id /\ q.sku = p.sku
        /\ \A p, q \in products : p.sku = q.sku => p.id = q.id
        /\ {p.sku : p \in products} \subseteq
              {p.sku : p \in last.before}
                  \cup {last.file[i].sku : i \in {j \in DOMAIN last.file :
                                                     TextSku(last.file[j].sku)}}


\* the orders a platform returned in a run, and the stored orders of a pair
Returned(obs, P) ==
    IF P \in DOMAIN obs.outs /\ ~ obs.outs[P].raises
    THEN {obs.outs[P].orders[i].external_order_id : i \in DOMAIN obs.outs[P].orders}
    ELSE {}

StoredAs(rows, id, P) ==
    {o \in rows : o.external_order_id = id /\ o.platform = P}

\* C21: after a SyncOrders run that returned, for every platform whose
\* fetch_orders returned a list, every returned order whose
\* (external_order_id, platform) was not stored before the run is stored
\* exactly once, also when the list holds the order twice or holds an order
\* that cannot be inserted.
C21_EveryNewOrderStored ==
    [][(last'.op = "sync_orders" /\ ~ last'.raised) =>
          \A P \in Platforms : \A id \in Returned(last', P) :
              StoredAs(orders, id, P) = {} =>
                  Cardinality(StoredAs(orders', id, P)) = 1]_vars


\* platform P has a credential row and an adapter
Configured(P) == get_client(P) # NoClient

\* the batch of P can be stored whatever the other platforms do: it holds no
\* order twice, and none of its orders is stored or reported elsewhere
CleanBatch(obs, P) ==
    /\ P \in DOMAIN obs.outs
    /\ ~ obs.outs[P].raises
    /\ \A i, j \in DOMAIN obs.outs[P].orders :
          i # j => obs.outs[P].orders[i].external_order_id
                       # obs.outs[P].orders[j].external_order_id
    /\ \A id \in Returned(obs, P) :
          /\ \A o \in orders : o.external_order_id # id
          /\ \A Q \in Platforms \ {P} : id \notin Returned(obs, Q)

\* C22: a SyncOrders run is never aborted by the failure of one platform: the
\* run returns, fetch_orders is called for every platform with credentials,
\* the new orders of every platform whose own batch is sound are stored, and
\* the orders stored before stay stored.
C22_FailureNeverAborts ==
    [][last'.op = "sync_orders" =>
          /\ ~ last'.raised
          /\ \A P \in Platforms : Configured(P) =>
                /\ Cardinality(CallsTo(last', P)) = 1
                /\ CleanBatch(last', P) =>
                      \A id \in Returned(last', P) :
                          Cardinality(StoredAs(orders', id, P)) = 1
          /\ orders \subseteq orders']_vars


\* the calls of a run that are exactly the given call
CallsLike(obs, call) == {i \in DOMAIN obs.calls : obs.calls[i] = call}

\* C23: when RunPricingEngine changes the price of a product it calls
\* update_price(external_id, new price) exactly once for every listing of the
\* product that is 'active' on a platform with an adapter and never for
\* another listing, whatever the update_price calls return or raise, and the
\* product keeps the new price.
C23_PricePushedToActiveListings ==
    [][last'.op = "run_pricing_engine" =>
          \A p \in products :
              LET after == RowById(products', p.id)
              IN  after.price # p.price =>
                    /\ after.price < p.price
                    /\ \A l \in listings : l.product_id = p.id =>
                          Cardinality(CallsLike(last',
                              Call("update_price", l.platform, l.external_id,
                                   after.price)))
                            = IF l.status = "active" /\ Configured(l.platform)
                              THEN 1 ELSE 0
                    /\ Len(last'.calls) =
                          Cardinality({l \in listings :
                              /\ l.product_id = p.id
                              /\ l.status = "active"
                              /\ Configured(l.platform)})]_vars

C23_Witness ==
    /\ last.op = "run_pricing_engine"
    /\ Len(last.calls) = 2
    /\ DOMAIN last.outs = {1, 2}
    /\ last.outs[1] = Raise
    /\ last.outs[2] = "false"
    /\ \E p \in products : p.price = 19600 /\ p.updated_at = now


\* the product a listing belongs to
OwnerOf(l) == CHOOSE p \in products : p.id = l.product_id

\* C24: in one SyncInventory run update_inventory is called exactly once for
\* every listing that is 'active' on a platform with an adapter, with the
\* listing's external_id and the quantity of its product, and never for
\* another listing; the run changes no product and no field of a listing
\* other than last_synced_at.
C24_InventoryPushedToActiveListings ==
    [][last'.op = "sync_inventory" =>
          /\ products' = products
          /\ Cardinality(listings') = Cardinality(listings)
          /\ \A l \in listings :
                /\ \E m \in listings' :
                      [m EXCEPT !.last_synced_at = l.last_synced_at] = l
                /\ Cardinality(CallsLike(last',
                       Call("update_inventory", l.platform, l.external_id,
                            OwnerOf(l).quantity)))
                     = IF l.status = "active" /\ Configured(l.platform)
                       THEN 1 ELSE 0
          /\ Len(last'.calls) =
                Cardinality({l \in listings :
                    l.status = "active" /\ Configured(l.platform)})]_vars

C24_Witness ==
    /\ last.op = "sync_inventory"
    /\ Len(last.calls) = 2
    /\ last.outs[1] = Raise
    /\ \E l \in listings : l.id = 1 /\ l.last_synced_at = NoTime
    /\ \E l \in listings : l.id = 2 /\ l.last_synced_at = now


\* C25: under any sequence of Publish, SyncInventory, SyncOrders and
\* RunPricingEngine the only status written to a listing is 'active': a
\* listing that appears is 'active', a listing whose status changes becomes
\* 'active', an 'active' listing stays 'active' and no listing disappears,
\* also when list_product, update_inventory or update_price fails for it.
C25_OnlyActiveIsWritten ==
    [][/\ \A m \in listings' :
            \/ m.status = "active"
            \/ \E l \in listings : l.id = m.id /\ l.status = m.status
       /\ \A l \in listings :
            \E m \in listings' :
                m.id = l.id /\ (l.status = "active" => m.status = "active")]_vars

\* a publish failed for a listing in 'error' and a later one made it 'active'
C25_Witness ==
    /\ last.op = "publish_product"
    /\ last.platforms = <<"ebay", "ebay">>
    /\ last.outs[1] = Raise
    /\ last.outs[2] \in ExtIds("ebay")
    /\ orders # {}
    /\ \E p \in products : p.price < 20000
    /\ \E l \in listings : l.platform = "ebay" /\ l.status = "active"
                             /\ l.last_synced_at # NoTime


\* C26: when two Publish requests for the same SKU and the same platform run
\* concurrently, each looking the listing up, then inserting or updating it,
\* then committing, every interleaving ends with at most one listing for the
\* (product, platform) pair.
C26_OneListingUnderRace ==
    AllDone =>
        \A l1, l2 \in listings :
            (l1.product_id = l2.product_id /\ l1.platform = l2.platform) => l1 = l2


\* the two requests of the mixed run, the tables as they were before it, and
\* what each operation makes of them when it runs alone
TheInventory == inflight[CHOOSE r \in DOMAIN inflight : inflight[r].op = "sync_inventory"]

ThePricing == inflight[CHOOSE r \in DOMAIN inflight : inflight[r].op = "run_pricing_engine"]

ListingsBefore ==
    {l \in listings : l.id \notin {x.id : x \in TheInventory.loaded}}
        \cup TheInventory.loaded

SerialListings ==
    sync_inventory_loop(
        SortedIds({l.id : l \in {x \in ListingsBefore : x.status = "active"}}),
        TheInventory.outs, [listings |-> ListingsBefore, calls |-> <<>>]).listings

SerialProducts ==
    pricing_loop(SortedIds({p.id : p \in ThePricing.loaded}), <<>>,
                 ThePricing.tie_up,
                 [products |-> ThePricing.loaded, calls |-> <<>>]).products

\* C27: every interleaving of one SyncInventory run and one RunPricingEngine
\* run ends in the store state that the two runs produce one after the
\* other (in either order the same state): the prices, and the
\* last_synced_at, status and external_id of the listings; no write of one
\* run is lost or overwritten by the other.
C27_InventoryAndPricingSerializable ==
    AllDone => (products = SerialProducts /\ listings = SerialListings)

\* the pricing run read the listings between two commits of the inventory run
C27_Witness ==
    /\ AllDone
    /\ \E p \in products : p.price = 19600
    /\ \A l \in listings : l.last_synced_at = now
    /\ \E s \in ThePricing.seen : s.id = 1 /\ s.last_synced_at = now
    /\ \E s \in ThePricing.seen : s.id = 2 /\ s.last_synced_at = NoTime


\* a step of eBay's list_product failed: no answer, or a non-success status
StepFailed(i) == last.answers[i].status # "success"

OfferCreated ==
    /\ ~ StepFailed(1)
    /\ ~ StepFailed(2)
    /\ last.answers[2].body = "payload"

\* C28: eBay's list_product runs the steps create inventory item, create
\* offer, publish offer in this order and attempts no step after a failed
\* one: it raises when the item step or the offer step fails, and when the
\* offer was created and the publish step fails it does not raise and
\* returns the offer id.
C28_EbayStepsInOrder ==
    (/\ last.op = "adapter_call"
     /\ last.variant = "ebay"
     /\ last.method = "list_product") =>
        /\ StepFailed(1) => (last.result.raised /\ last.result.calls = 1)
        /\ (~ StepFailed(1) /\ StepFailed(2))
              => (last.result.raised /\ last.result.calls = 2)
        /\ OfferCreated =>
              /\ last.result.calls = 3
              /\ ~ last.result.raised
              /\ last.result.value = "id"


\* the orders of platform P that every one of the concurrent runs fetched
FetchedByAll(P) ==
    {id \in {o.external_order_id : o \in RemoteOrders(P)} :
        \A r \in DOMAIN inflight :
            /\ P \in DOMAIN inflight[r].resp
            /\ ~ inflight[r].resp[P].raises
            /\ \E i \in DOMAIN inflight[r].resp[P].orders :
                  inflight[r].resp[P].orders[i].external_order_id = id}

\* C29: when two SyncOrders runs execute concurrently on an empty order
\* table and both fetch the same order, every interleaving of their
\* existence checks, inserts and commits ends with that
\* (external_order_id, platform) pair stored exactly once.
C29_OrderStoredOnceUnderRace ==
    AllDone =>
        \A P \in Platforms : \A id \in FetchedByAll(P) :
            Cardinality(StoredAs(orders, id, P)) = 1


\* C30: a RunPricingEngine run that lowers the price of a product sets the
\* product's last-update timestamp to the time of the run, and lowers the
\* price only when more than 30 days have passed since the timestamp it
\* found: a run within 30 days after a decay leaves the price, so that
\* across any sequence of runs a price is decayed at most once per 30 days.
C30_DecayOncePerInterval ==
    [][last'.op = "run_pricing_engine" =>
          \A p \in products :
              LET after == RowById(products', p.id)
              IN  /\ after.price # p.price =>
                        /\ after.updated_at = now
                        /\ p.updated_at # NoTime
                        /\ now - p.updated_at > DecayDays * TicksPerDay
                  /\ after.price = p.price => after.updated_at = p.updated_at]_vars

\* a run one tick after a decay found the refreshed timestamp and kept the price
C30_Witness ==
    /\ last.op = "run_pricing_engine"
    /\ \E p \in products :
          /\ p.price = 19600
          /\ p.quantity > 0
          /\ p.updated_at = now - 1

====
